---- MODULE Spec2Model ----
(***************************************************************************)
(* Public-market-equivalent methods: the benchmark-return builder, the     *)
(* three PME algorithms (Long-Nickels, mPME, Kaplan-Schoar), the           *)
(* transaction aggregator, the keyed sorted searches and the XIRR          *)
(* degenerate-case policy, modelled from src/pme/utils/pme_utils.py and    *)
(* src/common/utils/*.py.                                                  *)
(*                                                                         *)
(* Numbers are exact rationals <<n, d>> (d > 0, lowest terms); Python's    *)
(* None is <<0, 0>>.  Floating-point rounding is not modelled.             *)
(* Date strings are the "%Y-%m-%d" texts of DateStrings; strptime maps     *)
(* them to day ordinals and strftime back.                                 *)
(***************************************************************************)
EXTENDS Integers, Sequences, FiniteSets, TLC

VARIABLES
    benchmark_values,        \* argument of __get_benchmark_returns
    investment_returns,      \* argument: the primary investment's returns
    investment_transactions, \* argument: the primary investment's transactions
    index_values,            \* local of __get_benchmark_returns
    benchmark_returns,       \* the series built, then mutated in place
    pc,                      \* position of the running call
    frame,                   \* local variables of the running PME call
    exception,               \* the exception the last call raised, or "none"
    calls_left,              \* PME calls the caller will still make on the series
    cashflows,               \* argument of calculate_xirr
    xirr,                    \* value returned by calculate_xirr
    solver_stage,            \* whether calculate_xirr went on to the bracket test and brenth
    arguments,               \* arguments of the helper call under way (aggregator, searches)
    returned                 \* what that helper call returned or raised

vars == <<benchmark_values, investment_returns, investment_transactions,
          index_values, benchmark_returns, pc, frame, exception, calls_left,
          cashflows, xirr, solver_stage, arguments, returned>>

-----------------------------------------------------------------------------
(* Bounds of the model *)

MaxTxns == 2

MaxReturns == 1

MaxBench == 2

MaxCalls == 2

MaxFlows == 3

MaxLen == 3

-----------------------------------------------------------------------------
(* Python numbers and None *)

None == <<0, 0>>

RECURSIVE GCD(_, _)
GCD(a, b) == IF b = 0 THEN a ELSE GCD(b, a % b)

Abs(n) == IF n < 0 THEN -n ELSE n

\* the rational n/d in lowest terms with a positive denominator (d # 0)
Norm(n, d) ==
    LET g == GCD(Abs(n), Abs(d))
        s == IF d < 0 THEN -1 ELSE 1
    IN  <<(s * n) \div g, (s * d) \div g>>

R(n) == <<n, 1>>

Zero == R(0)

One == R(1)

IsNumber(x) == x[2] > 0

RAdd(x, y) == Norm(x[1] * y[2] + y[1] * x[2], x[2] * y[2])

RSub(x, y) == Norm(x[1] * y[2] - y[1] * x[2], x[2] * y[2])

RMul(x, y) == Norm(x[1] * y[1], x[2] * y[2])

RNeg(x) == <<-x[1], x[2]>>

RAbs(x) == <<Abs(x[1]), x[2]>>

\* x / y for y # 0; Python raises ZeroDivisionError when y = 0
RDiv(x, y) == Norm(x[1] * y[2], x[2] * y[1])

\* Python truth value of a number or None
Truthy(x) == x # None /\ x[1] # 0

\* Python's "x or 0.0"
OrZero(x) == IF Truthy(x) THEN x ELSE Zero

-----------------------------------------------------------------------------
(* Dates.  A datetime is a count of half days since 2020-01-01 00:00, so an *)
(* even number is a midnight and an odd one carries a time of day.          *)

DateStrings == {"2020-01-01", "2020-07-01", "2021-01-01"}

\* datetime.datetime.strptime(s, "%Y-%m-%d"): midnight of the day s names
strptime(s) ==
    CASE s = "2020-01-01" -> 0
      [] s = "2020-07-01" -> 364
      [] s = "2021-01-01" -> 732

\* datetime.datetime(d.year, d.month, d.day): the time of day is dropped
date_only(d) == d - (d % 2)

\* datetime.datetime.strftime(d, "%Y-%m-%d"): the text of d's day
strftime(d) == CHOOSE s \in DateStrings : strptime(s) = date_only(d)

-----------------------------------------------------------------------------
(* Python lists are sequences; Python index i is position i + 1.  A value  *)
(* that is "an item or None" is a sequence of at most one item.            *)

NoItem == <<>>

Item(x) == <<x>>

\* sorted with reverse=True: latest key first
sorted_descending(s, k) ==
    LET rank(i) == Cardinality({j \in 1..Len(k) :
                        k[j] > k[i] \/ (k[j] = k[i] /\ j < i)}) + 1
    IN  [p \in 1..Len(s) |-> s[CHOOSE i \in 1..Len(s) : rank(i) = p]]

\* sorted(s, key=...): stable, k[i] is the key of s[i]
sorted(s, k) ==
    LET rank(i) == Cardinality({j \in 1..Len(k) :
                        k[j] < k[i] \/ (k[j] = k[i] /\ j < i)}) + 1
    IN  [p \in 1..Len(s) |-> s[CHOOSE i \in 1..Len(s) : rank(i) = p]]

\* the elements of a set in the order the interpreter iterates it
RECURSIVE list_of_set(_)
list_of_set(S) ==
    IF S = {} THEN <<>>
    ELSE LET x == CHOOSE y \in S : TRUE IN <<x>> \o list_of_set(S \ {x})

RECURSIVE bisect_left_loop(_, _, _, _)
bisect_left_loop(a, x, lo, hi) ==
    IF lo < hi
    THEN LET mid == (lo + hi) \div 2
         IN  IF a[mid + 1] < x THEN bisect_left_loop(a, x, mid + 1, hi)
                               ELSE bisect_left_loop(a, x, lo, mid)
    ELSE lo

RECURSIVE bisect_right_loop(_, _, _, _)
bisect_right_loop(a, x, lo, hi) ==
    IF lo < hi
    THEN LET mid == (lo + hi) \div 2
         IN  IF x < a[mid + 1] THEN bisect_right_loop(a, x, lo, mid)
                               ELSE bisect_right_loop(a, x, mid + 1, hi)
    ELSE lo

bisect_left(a, x) == bisect_left_loop(a, x, 0, Len(a))

bisect_right(a, x) == bisect_right_loop(a, x, 0, Len(a))

\* BisectHelpers.index: a position is a Python index, counted from 0
index(a, x) ==
    LET i == bisect_left(a, x)
    IN  IF i # Len(a) /\ a[i + 1] = x THEN Item(i) ELSE NoItem

\* find_lt searching with bisect_right: less than or equal to x
find_lt_right(a, x) ==
    LET i == bisect_right(a, x)
    IN  IF i # 0 THEN Item(a[i]) ELSE NoItem

find_lt(a, x) ==
    LET i == bisect_left(a, x)
    IN  IF i # 0 THEN Item(a[i]) ELSE NoItem

find_le(a, x) ==
    LET i == bisect_right(a, x)
    IN  IF i # 0 THEN Item(a[i]) ELSE NoItem

find_gt(a, x) ==
    LET i == bisect_right(a, x)
    IN  IF i # Len(a) THEN Item(a[i + 1]) ELSE NoItem

find_ge(a, x) ==
    LET i == bisect_left(a, x)
    IN  IF i # Len(a) THEN Item(a[i + 1]) ELSE NoItem

specific_value_list(a, key) == [i \in 1..Len(a) |-> a[i][key]]

\* Python's == between an item of the list (a dict or a list) and the value
\* searched for (a number or a datetime): the two are never equal
item_equals_value(item, x) == FALSE

index_by_key(a, x, key) ==
    LET i == bisect_left(specific_value_list(a, key), x)
    IN  IF i # Len(a) /\ item_equals_value(a[i + 1], x) THEN Item(i) ELSE NoItem

\* find_eq_by_key searching with bisect_right
find_eq_by_key_right(a, x, key) ==
    LET i == bisect_right(specific_value_list(a, key), x)
    IN  IF i # Len(a) /\ a[i + 1][key] = x THEN Item(a[i + 1]) ELSE NoItem

find_eq_by_key(a, x, key) ==
    LET i == bisect_left(specific_value_list(a, key), x)
    IN  IF i # Len(a) /\ a[i + 1][key] = x THEN Item(a[i + 1]) ELSE NoItem

\* find_le_by_key searching with bisect_left: strictly less than x
find_le_by_key_left(a, x, key) ==
    LET i == bisect_left(specific_value_list(a, key), x)
    IN  IF i # 0 THEN Item(a[i]) ELSE NoItem

find_le_by_key(a, x, key) ==
    LET i == bisect_right(specific_value_list(a, key), x)
    IN  IF i # 0 THEN Item(a[i]) ELSE NoItem

find_gt_by_key(a, x, key) ==
    LET i == bisect_right(specific_value_list(a, key), x)
    IN  IF i # Len(a) THEN Item(a[i + 1]) ELSE NoItem

find_lt_by_key(a, x, key) ==
    LET i == bisect_left(specific_value_list(a, key), x)
    IN  IF i # 0 THEN Item(a[i]) ELSE NoItem

\* find_ge_by_key searching with bisect_right: strictly greater than x
find_ge_by_key_right(a, x, key) ==
    LET i == bisect_right(specific_value_list(a, key), x)
    IN  IF i # Len(a) THEN Item(a[i + 1]) ELSE NoItem

find_ge_by_key(a, x, key) ==
    LET i == bisect_left(specific_value_list(a, key), x)
    IN  IF i # Len(a) THEN Item(a[i + 1]) ELSE NoItem

-----------------------------------------------------------------------------
(* common/utils/utils.py and common/utils/transaction_utils.py *)

RECURSIVE concat(_)
concat(list_of_lists) ==
    IF list_of_lists = <<>> THEN <<>>
    ELSE Head(list_of_lists) \o concat(Tail(list_of_lists))

\* get_unique_values without the set(): every value, repeated ones too
get_unique_values_repeated(list_of_lists, key) ==
    LET master_list == concat(list_of_lists)
    IN  [i \in 1..Len(master_list) |-> master_list[i][key]]

get_unique_values(list_of_lists, key) ==
    LET master_list == concat(list_of_lists)
    IN  list_of_set({master_list[i][key] : i \in 1..Len(master_list)})

\* the transaction type identifiers of common.model_enums.TransactionTypeEnum
Contribution == 1

Distribution == 2

\* transaction_type_id=None
NoTypeId == 0 - 1

TypeIdTruthy(t) == t # NoTypeId /\ t # 0

RECURSIVE sum(_)
sum(s) == IF s = <<>> THEN Zero ELSE RAdd(Head(s), sum(Tail(s)))

\* the type filter of line 25 left out
select_any_type(transactions, transaction_type_id) == transactions

select_type(transactions, transaction_type_id) ==
    SelectSeq(transactions, LAMBDA x : x["transactionTypeId"] = transaction_type_id)

\* [raised |-> the exception raised or "none", value |-> the list returned]
aggregate_transactions_by_date(transactions, transaction_type_id) ==
    IF /\ TypeIdTruthy(transaction_type_id)
       /\ Len(transactions) > 0
       /\ "transactionTypeId" \notin DOMAIN transactions[1]
    THEN [raised |-> "InvalidState", value |-> <<>>]
    ELSE IF /\ TypeIdTruthy(transaction_type_id)
            /\ \E i \in 1..Len(transactions) :
                   "transactionTypeId" \notin DOMAIN transactions[i]
    THEN [raised |-> "KeyError", value |-> <<>>]
    ELSE
      LET txns == IF TypeIdTruthy(transaction_type_id)
                  THEN select_type(transactions, transaction_type_id)
                  ELSE transactions
          transactions_date_sets == list_of_set({txns[i].date : i \in 1..Len(txns)})
          group(transaction_date) ==
              SelectSeq(txns, LAMBDA txn : txn.date = transaction_date)
          summed_transactions ==
              [g \in 1..Len(transactions_date_sets) |->
                  LET grp == group(transactions_date_sets[g])
                  IN  [date  |-> grp[1].date,
                       value |-> sum([n \in 1..Len(grp) |-> OrZero(grp[n].value)])]]
      IN  [raised |-> "none",
           value  |-> sorted(summed_transactions,
                             [g \in 1..Len(summed_transactions) |->
                                 strptime(summed_transactions[g].date)])]

\* the list comprehensions at the head of the three PME algorithms:
\* the aggregated flows of one type, their dates parsed
parsed_aggregate(transactions, transaction_type_id) ==
    LET agg == aggregate_transactions_by_date(transactions, transaction_type_id).value
    IN  [i \in 1..Len(agg) |-> [date |-> strptime(agg[i].date), value |-> agg[i].value]]

-----------------------------------------------------------------------------
(* PmeUtils.__get_benchmark_returns *)

\* step 1, lines 323-324: the caller's benchmark values, their dates
\* rewritten in place in datetime form
in_datetime_form(values) ==
    [i \in 1..Len(values) |-> [values[i] EXCEPT !.date = date_only(values[i].date)]]

\* step 1, line 326: the local list, sorted by date
sorted_by_date(values) == sorted(values, [i \in 1..Len(values) |-> values[i].date])

\* step 2, one date: the index value on that date, or NoItem when the
\* update() of line 340 is handed None
index_value_on(values, date_string) ==
    LET date == strptime(date_string)
        benchmark_value == find_le_by_key(values, date, "date")
        later_value == find_gt_by_key(values, date, "date")
    IN  IF benchmark_value # NoItem
        THEN Item([benchmark_value[1] EXCEPT !.date = date])
        ELSE IF later_value # NoItem
        THEN Item([later_value[1] EXCEPT !.date = date])
        ELSE NoItem

\* returns_loop with line 358 assigning instead of multiplying
RECURSIVE returns_loop_uncompounded(_, _, _, _)
returns_loop_uncompounded(values, n, prev_value, cumulative_return) ==
    IF n > Len(values) THEN <<>>
    ELSE LET x == values[n]
             return_ == IF Truthy(prev_value)
                        THEN RDiv(RSub(x.value, prev_value), prev_value)
                        ELSE Zero
             cumulative == RAdd(return_, One)
         IN  <<[date |-> strftime(x.date),
                balance |-> x.value,
                timeWeightedReturn |-> return_,
                cumulativeTimeWeightedReturn |-> cumulative,
                kaplanSchoarMultiple |-> None,
                xirr |-> None,
                dpi |-> None,
                rvpi |-> None,
                tvpi |-> None]>>
             \o returns_loop_uncompounded(values, n + 1, x.value, cumulative)

\* step 3: the loop of lines 353-372 over index_values[n..]
RECURSIVE returns_loop(_, _, _, _)
returns_loop(values, n, prev_value, cumulative_return) ==
    IF n > Len(values) THEN <<>>
    ELSE LET x == values[n]
             return_ == IF Truthy(prev_value)
                        THEN RDiv(RSub(x.value, prev_value), prev_value)
                        ELSE Zero
             cumulative == RMul(cumulative_return, RAdd(return_, One))
         IN  <<[date |-> strftime(x.date),
                balance |-> x.value,
                timeWeightedReturn |-> return_,
                cumulativeTimeWeightedReturn |-> cumulative,
                kaplanSchoarMultiple |-> None,
                xirr |-> None,
                dpi |-> None,
                rvpi |-> None,
                tvpi |-> None]>>
             \o returns_loop(values, n + 1, x.value, cumulative)

NoFrame == [fn |-> "none"]

\* no helper call under way
NoCall == [fn |-> "none"]

\* lines 319-320: an empty benchmark-value list is an invalid state
GetBenchmarkReturns_Raise ==
    /\ pc = "start"
    /\ Len(benchmark_values) = 0
    /\ exception' = "InvalidState"
    /\ pc' = "raised"
    /\ UNCHANGED <<benchmark_values, investment_returns, investment_transactions,
                   index_values, benchmark_returns, frame, calls_left,
                   cashflows, xirr, solver_stage,
                   arguments, returned>>

\* lines 322-326
GetBenchmarkReturns_Sort ==
    /\ pc = "start"
    /\ Len(benchmark_values) # 0
    /\ benchmark_values' = in_datetime_form(benchmark_values)
    /\ frame' = [fn |-> "__get_benchmark_returns",
                 benchmark_values |-> sorted_by_date(benchmark_values')]
    /\ pc' = "index_values"
    /\ UNCHANGED <<investment_returns, investment_transactions, index_values,
                   benchmark_returns, exception, calls_left,
                   cashflows, xirr, solver_stage,
                   arguments, returned>>

\* lines 330-346
GetBenchmarkReturns_IndexValues ==
    /\ pc = "index_values"
    /\ LET dates == get_unique_values(<<investment_returns, investment_transactions>>, "date")
           found == [i \in 1..Len(dates) |->
                        index_value_on(frame.benchmark_values, dates[i])]
       IN  IF \E i \in 1..Len(dates) : found[i] = NoItem
           THEN /\ exception' = "TypeError"
                /\ pc' = "raised"
                /\ UNCHANGED index_values
           ELSE /\ index_values' =
                       LET values == [i \in 1..Len(dates) |-> found[i][1]]
                       IN  sorted(values, [i \in 1..Len(values) |-> values[i].date])
                /\ pc' = "returns"
                /\ UNCHANGED exception
    /\ UNCHANGED <<benchmark_values, investment_returns, investment_transactions,
                   benchmark_returns, frame, calls_left, cashflows, xirr, solver_stage,
                   arguments, returned>>

\* lines 348-374
GetBenchmarkReturns_Returns ==
    /\ pc = "returns"
    /\ benchmark_returns' = returns_loop(index_values, 1, None, One)
    /\ frame' = NoFrame
    /\ pc' = "ready"
    /\ UNCHANGED <<benchmark_values, investment_returns, investment_transactions,
                   index_values, exception, calls_left,
                   cashflows, xirr, solver_stage,
                   arguments, returned>>

GetBenchmarkReturns ==
    \/ GetBenchmarkReturns_Raise
    \/ GetBenchmarkReturns_Sort
    \/ GetBenchmarkReturns_IndexValues
    \/ GetBenchmarkReturns_Returns

-----------------------------------------------------------------------------
(* common/utils/xirr_utils.py *)

\* what lines 105-115 return (the root brenth finds, or None when the signs
\* at -0.999 and 100 agree); the numeric value is not modelled
BracketedRoot == <<1, 0>>

\* Python 2 comparisons of a value that may be None: None sorts below numbers
ge_zero(v) == v # None /\ v[1] >= 0

le_zero(v) == v = None \/ v[1] <= 0

\* calculate_xirr testing "all <= 0" before "all >= 0"
calculate_xirr_negatives_first(transactions) ==
    LET txns == sorted(transactions,
                       [i \in 1..Len(transactions) |-> strptime(transactions[i].date)])
    IN  IF \A i \in 1..Len(txns) : le_zero(txns[i].value)
        THEN [value |-> R(-1), solver_stage |-> FALSE]
        ELSE IF \A i \in 1..Len(txns) : ge_zero(txns[i].value)
        THEN [value |-> None, solver_stage |-> FALSE]
        ELSE [value |-> BracketedRoot, solver_stage |-> TRUE]

\* [value |-> the value returned, solver_stage |-> whether lines 78-115 ran]
calculate_xirr(transactions) ==
    LET txns == sorted(transactions,
                       [i \in 1..Len(transactions) |-> strptime(transactions[i].date)])
    IN  IF \A i \in 1..Len(txns) : ge_zero(txns[i].value)
        THEN [value |-> None, solver_stage |-> FALSE]
        ELSE IF \A i \in 1..Len(txns) : le_zero(txns[i].value)
        THEN [value |-> R(-1), solver_stage |-> FALSE]
        ELSE [value |-> BracketedRoot, solver_stage |-> TRUE]

\* lines 29-31: all transactions grouped by date, their signs flipped
flipped_aggregate(transactions) ==
    LET agg == aggregate_transactions_by_date(transactions, NoTypeId).value
    IN  [i \in 1..Len(agg) |-> [agg[i] EXCEPT !.value = RMul(@, R(-1))]]

\* read_xirrs_timeseries; returns is Item(list) or NoItem (None)
read_xirrs_timeseries(returns, transactions) ==
    LET transactions_aggregated_by_date == flipped_aggregate(transactions)
    IN  IF returns = NoItem /\ Len(transactions_aggregated_by_date) > 0
        THEN [i \in 1..Len(transactions_aggregated_by_date) |->
                 [date |-> transactions_aggregated_by_date[i].date,
                  xirr |-> calculate_xirr(SubSeq(transactions_aggregated_by_date, 1, i)).value]]
        ELSE IF returns # NoItem
        THEN [i \in 1..Len(returns[1]) |->
                 LET filtered_transactions ==
                         SelectSeq(transactions_aggregated_by_date,
                                   LAMBDA x : strptime(x.date) <= strptime(returns[1][i].date))
                 IN  [date |-> returns[1][i].date,
                      balance |-> returns[1][i].balance,
                      xirr |-> calculate_xirr(
                                  Append(filtered_transactions,
                                         [date |-> returns[1][i].date,
                                          value |-> returns[1][i].balance])).value]]
        ELSE <<>>

\* number of arguments read_xirrs_timeseries(self, returns, transactions) takes
read_xirrs_timeseries_arity == 2

\* a call of read_xirrs_timeseries with the positional arguments args
call_read_xirrs_timeseries(args) ==
    IF Len(args) # read_xirrs_timeseries_arity
    THEN [raised |-> "TypeError", value |-> <<>>]
    ELSE [raised |-> "none", value |-> read_xirrs_timeseries(args[1], args[2])]

\* calculate_xirr called on a cash-flow list
CalculateXirr ==
    /\ pc = "calculate_xirr"
    /\ xirr' = calculate_xirr(cashflows).value
    /\ solver_stage' = calculate_xirr(cashflows).solver_stage
    /\ pc' = "returned"
    /\ UNCHANGED <<benchmark_values, investment_returns, investment_transactions,
                   index_values, benchmark_returns, frame, exception, calls_left,
                   cashflows,
                   arguments, returned>>

-----------------------------------------------------------------------------
(* The three PME algorithms.  A call is entered from pc = "ready", runs one *)
(* loop iteration per step and returns (or raises) back to pc = "ready".    *)

\* with_tvpi whose zero branch does not test calculate_tvpi
with_tvpi_unasked(benchmark_return, calculate_tvpi, cumulative_contributions, distributed, residual) ==
    IF calculate_tvpi /\ Truthy(cumulative_contributions)
    THEN LET dpi == RDiv(RMul(R(-1), distributed), cumulative_contributions)
             rvpi == RDiv(residual, cumulative_contributions)
         IN  [benchmark_return EXCEPT !.dpi = dpi, !.rvpi = rvpi, !.tvpi = RAdd(dpi, rvpi)]
    ELSE [benchmark_return EXCEPT !.dpi = Zero, !.rvpi = Zero, !.tvpi = RAdd(Zero, Zero)]

\* lines 88-96, 198-205, 284-291: the dpi / rvpi / tvpi columns of one entry
with_tvpi(benchmark_return, calculate_tvpi, cumulative_contributions, distributed, residual) ==
    IF calculate_tvpi /\ Truthy(cumulative_contributions)
    THEN LET dpi == RDiv(RMul(R(-1), distributed), cumulative_contributions)
             rvpi == RDiv(residual, cumulative_contributions)
         IN  [benchmark_return EXCEPT !.dpi = dpi, !.rvpi = rvpi, !.tvpi = RAdd(dpi, rvpi)]
    ELSE IF calculate_tvpi
    THEN [benchmark_return EXCEPT !.dpi = Zero, !.rvpi = Zero, !.tvpi = RAdd(Zero, Zero)]
    ELSE benchmark_return

\* the value of an item or None, 0.0 for None
value_or_zero(item) == IF item # NoItem THEN item[1].value ELSE Zero

\* a PME call ends: it returns, or raises the exception named
EndCall(raised) ==
    /\ exception' = raised
    /\ frame' = NoFrame
    /\ pc' = "ready"

\* calculate_long_nickels_PME, lines 44-59
CallLongNickels(want_xirr, calculate_tvpi) ==
    /\ pc = "ready"
    /\ calls_left > 0
    /\ calls_left' = calls_left - 1
    /\ LET contributions == aggregate_transactions_by_date(investment_transactions, Contribution)
           distributions == aggregate_transactions_by_date(investment_transactions, Distribution)
       IN  IF contributions.raised # "none"
           THEN EndCall(contributions.raised)
           ELSE /\ frame' = [fn |-> "calculate_long_nickels_PME",
                             calculate_xirr |-> want_xirr,
                             calculate_tvpi |-> calculate_tvpi,
                             contributions_aggregated_by_date |->
                                 parsed_aggregate(investment_transactions, Contribution),
                             distributions_aggregated_by_date |->
                                 parsed_aggregate(investment_transactions, Distribution),
                             prev_value |-> None,
                             cumulative_contributions |-> Zero,
                             cumulative_distributions |-> Zero,
                             theoretical_investment_series |-> <<>>,
                             i |-> 0]
                /\ pc' = "long_nickels"
                /\ exception' = "none"
    /\ UNCHANGED <<benchmark_values, investment_returns, investment_transactions,
                   index_values, benchmark_returns, cashflows, xirr, solver_stage,
                   arguments, returned>>

\* compounded_value multiplying by the return instead of by 1 + the return
compounded_value_by_return(prev_value, benchmark_return) ==
    IF Truthy(prev_value)
    THEN RMul(prev_value, benchmark_return.timeWeightedReturn)
    ELSE Zero

\* lines 68-70: the previous balance grown by the entry's return, 0.0 when
\* there is no previous balance or it is 0
compounded_value(prev_value, benchmark_return) ==
    IF Truthy(prev_value)
    THEN RMul(prev_value, RAdd(One, benchmark_return.timeWeightedReturn))
    ELSE Zero

\* calculate_long_nickels_PME, one iteration of the loop of lines 60-98
LongNickels_Iteration ==
    /\ pc = "long_nickels"
    /\ frame.i < Len(benchmark_returns)
    /\ LET n == frame.i + 1
           benchmark_return == benchmark_returns[n]
           current_date == strptime(benchmark_return.date)
           compounded == compounded_value(frame.prev_value, benchmark_return)
           contribution == find_eq_by_key(frame.contributions_aggregated_by_date,
                                          current_date, "date")
           distribution == find_eq_by_key(frame.distributions_aggregated_by_date,
                                          current_date, "date")
           current_value == RAdd(RAdd(compounded, value_or_zero(contribution)),
                                 value_or_zero(distribution))
           cumulative_contributions ==
               RAdd(frame.cumulative_contributions, value_or_zero(contribution))
           cumulative_distributions ==
               RAdd(frame.cumulative_distributions, value_or_zero(distribution))
       IN  /\ benchmark_returns' =
                  [benchmark_returns EXCEPT ![n] =
                      with_tvpi(benchmark_return, frame.calculate_tvpi,
                                cumulative_contributions, cumulative_distributions,
                                current_value)]
           /\ frame' = [frame EXCEPT
                  !.theoretical_investment_series =
                      Append(@, [date |-> benchmark_return.date, balance |-> current_value]),
                  !.cumulative_contributions = cumulative_contributions,
                  !.cumulative_distributions = cumulative_distributions,
                  !.prev_value = current_value,
                  !.i = n]
    /\ UNCHANGED <<benchmark_values, investment_returns, investment_transactions,
                   index_values, pc, exception, calls_left, cashflows, xirr, solver_stage,
                   arguments, returned>>

\* lines 104-105, 220-221: the xirrs written back by position
with_xirrs(returns, xirrs) ==
    [n \in 1..Len(returns) |->
        IF n <= Len(xirrs) THEN [returns[n] EXCEPT !.xirr = xirrs[n].xirr]
        ELSE returns[n]]

\* calculate_long_nickels_PME, lines 100-107 with calculate_xirr set
LongNickels_Xirr ==
    /\ pc = "long_nickels"
    /\ frame.i = Len(benchmark_returns)
    /\ frame.calculate_xirr
    /\ LET xirrs == call_read_xirrs_timeseries(
                        <<NoItem, Item(frame.theoretical_investment_series),
                          investment_transactions>>)
       IN  IF xirrs.raised # "none"
           THEN EndCall(xirrs.raised) /\ UNCHANGED benchmark_returns
           ELSE /\ benchmark_returns' = with_xirrs(benchmark_returns, xirrs.value)
                /\ EndCall("none")
    /\ UNCHANGED <<benchmark_values, investment_returns, investment_transactions,
                   index_values, calls_left, cashflows, xirr, solver_stage,
                   arguments, returned>>

\* calculate_long_nickels_PME, line 107 reached with calculate_xirr unset
LongNickels_Return ==
    /\ pc = "long_nickels"
    /\ frame.i = Len(benchmark_returns)
    /\ ~frame.calculate_xirr
    /\ EndCall("none")
    /\ UNCHANGED <<benchmark_values, investment_returns, investment_transactions,
                   index_values, benchmark_returns, calls_left, cashflows, xirr,
                   solver_stage,
                   arguments, returned>>

\* calculate_kaplan_schoar_PME, lines 242-254
CallKaplanSchoar(calculate_tvpi) ==
    /\ pc = "ready"
    /\ calls_left > 0
    /\ calls_left' = calls_left - 1
    /\ LET distributions == aggregate_transactions_by_date(investment_transactions, Distribution)
       IN  IF distributions.raised # "none"
           THEN EndCall(distributions.raised)
           ELSE /\ frame' = [fn |-> "calculate_kaplan_schoar_PME",
                             calculate_tvpi |-> calculate_tvpi,
                             distributions_aggregated_by_date |->
                                 parsed_aggregate(investment_transactions, Distribution),
                             contributions_aggregated_by_date |->
                                 parsed_aggregate(investment_transactions, Contribution),
                             cumulative_contributions |-> Zero,
                             prev_discounted_distribution_value |-> None,
                             prev_discounted_contribution_value |-> None,
                             i |-> 0]
                /\ pc' = "kaplan_schoar"
                /\ exception' = "none"
    /\ UNCHANGED <<benchmark_values, investment_returns, investment_transactions,
                   index_values, benchmark_returns, cashflows, xirr, solver_stage,
                   arguments, returned>>

\* calculate_kaplan_schoar_PME, one iteration of the loop of lines 255-295
KaplanSchoar_Iteration ==
    /\ pc = "kaplan_schoar"
    /\ frame.i < Len(benchmark_returns)
    /\ LET n == frame.i + 1
           benchmark_return == benchmark_returns[n]
           current_date == strptime(benchmark_return.date)
           growth == RAdd(One, benchmark_return.timeWeightedReturn)
           distribution == find_eq_by_key(frame.distributions_aggregated_by_date,
                                          current_date, "date")
           total_discounted_distribution_value ==
               RAdd(IF frame.prev_discounted_distribution_value # None
                    THEN RMul(frame.prev_discounted_distribution_value, growth)
                    ELSE Zero,
                    value_or_zero(distribution))
           contribution == find_eq_by_key(frame.contributions_aggregated_by_date,
                                          current_date, "date")
           total_discounted_contribution_value ==
               RAdd(IF frame.prev_discounted_contribution_value # None
                    THEN RMul(frame.prev_discounted_contribution_value, growth)
                    ELSE Zero,
                    value_or_zero(contribution))
           cumulative_contributions ==
               RAdd(frame.cumulative_contributions, value_or_zero(contribution))
           kaplanSchoarMultiple ==
               IF total_discounted_contribution_value # Zero
               THEN RDiv(total_discounted_distribution_value,
                         RMul(R(-1), total_discounted_contribution_value))
               ELSE Zero
       IN  /\ benchmark_returns' =
                  [benchmark_returns EXCEPT ![n] =
                      with_tvpi([benchmark_return EXCEPT
                                     !.kaplanSchoarMultiple = kaplanSchoarMultiple],
                                frame.calculate_tvpi, cumulative_contributions,
                                total_discounted_distribution_value,
                                RAdd(total_discounted_contribution_value,
                                     total_discounted_distribution_value))]
           /\ frame' = [frame EXCEPT
                  !.cumulative_contributions = cumulative_contributions,
                  !.prev_discounted_distribution_value = total_discounted_distribution_value,
                  !.prev_discounted_contribution_value = total_discounted_contribution_value,
                  !.i = n]
    /\ UNCHANGED <<benchmark_values, investment_returns, investment_transactions,
                   index_values, pc, exception, calls_left, cashflows, xirr, solver_stage,
                   arguments, returned>>

\* calculate_kaplan_schoar_PME, line 297
KaplanSchoar_Return ==
    /\ pc = "kaplan_schoar"
    /\ frame.i = Len(benchmark_returns)
    /\ EndCall("none")
    /\ UNCHANGED <<benchmark_values, investment_returns, investment_transactions,
                   index_values, benchmark_returns, calls_left, cashflows, xirr,
                   solver_stage,
                   arguments, returned>>

\* calculate_mPME, lines 133-141: the returns, dates parsed, sorted by date
sorted_investment_returns(returns) ==
    LET datetime_investment_returns ==
            [i \in 1..Len(returns) |->
                [returns[i] EXCEPT !.date = strptime(returns[i].date)]]
    IN  sorted(datetime_investment_returns,
               [i \in 1..Len(returns) |-> datetime_investment_returns[i].date])

\* calculate_mPME, lines 168-171; None where line 171 divides by zero
distribution_weight(distribution, most_recent_return) ==
    IF distribution # NoItem /\ most_recent_return # NoItem
    THEN LET denominator == RAdd(RNeg(distribution[1].value),
                                 most_recent_return[1].balance)
         IN  IF denominator = Zero THEN None
             ELSE RDiv(RNeg(distribution[1].value), denominator)
    ELSE Zero

\* calculate_mPME, lines 121-149
CallMPME(want_xirr, calculate_tvpi) ==
    /\ pc = "ready"
    /\ calls_left > 0
    /\ calls_left' = calls_left - 1
    /\ LET contributions == aggregate_transactions_by_date(investment_transactions, Contribution)
       IN  IF contributions.raised # "none"
           THEN EndCall(contributions.raised)
           ELSE /\ frame' = [fn |-> "calculate_mPME",
                             calculate_xirr |-> want_xirr,
                             calculate_tvpi |-> calculate_tvpi,
                             contributions_aggregated_by_date |->
                                 parsed_aggregate(investment_transactions, Contribution),
                             distributions_aggregated_by_date |->
                                 parsed_aggregate(investment_transactions, Distribution),
                             sorted_investment_returns |->
                                 sorted_investment_returns(investment_returns),
                             prev_theoretical_balance |-> None,
                             prev_benchmark_balance |-> None,
                             cumulative_contributions |-> Zero,
                             cumulative_weighted_distributions |-> Zero,
                             theoretical_balances |-> <<>>,
                             weighted_distributions |-> <<>>,
                             distribution_weight |-> None,
                             i |-> 0]
                /\ pc' = "mPME"
                /\ exception' = "none"
    /\ UNCHANGED <<benchmark_values, investment_returns, investment_transactions,
                   index_values, benchmark_returns, cashflows, xirr, solver_stage,
                   arguments, returned>>

\* calculate_mPME, one iteration of the loop of lines 150-209
MPME_Iteration ==
    /\ pc = "mPME"
    /\ frame.i < Len(benchmark_returns)
    /\ LET n == frame.i + 1
           benchmark_return == benchmark_returns[n]
           current_date == strptime(benchmark_return.date)
           contribution == find_eq_by_key(frame.contributions_aggregated_by_date,
                                          current_date, "date")
           distribution == find_eq_by_key(frame.distributions_aggregated_by_date,
                                          current_date, "date")
           most_recent_return == find_le_by_key(frame.sorted_investment_returns,
                                                current_date, "date")
           weight == distribution_weight(distribution, most_recent_return)
           prev_theoretical_balance ==
               IF frame.prev_theoretical_balance # None
               THEN frame.prev_theoretical_balance ELSE Zero
           prev_benchmark_balance ==
               IF frame.prev_benchmark_balance # None
               THEN frame.prev_benchmark_balance ELSE benchmark_return.balance
           adjusted_balance ==
               RAdd(RMul(prev_theoretical_balance,
                         RDiv(benchmark_return.balance, prev_benchmark_balance)),
                    value_or_zero(contribution))
           theoretical_balance == RMul(RSub(One, weight), adjusted_balance)
           weighted_distribution == RMul(RMul(R(-1), weight), adjusted_balance)
           cumulative_contributions ==
               RAdd(frame.cumulative_contributions, value_or_zero(contribution))
           cumulative_weighted_distributions ==
               RAdd(frame.cumulative_weighted_distributions, weighted_distribution)
       IN  IF weight = None \/ prev_benchmark_balance = Zero
           THEN EndCall("ZeroDivisionError") /\ UNCHANGED benchmark_returns
           ELSE
           /\ benchmark_returns' =
                  [benchmark_returns EXCEPT ![n] =
                      with_tvpi(benchmark_return, frame.calculate_tvpi,
                                cumulative_contributions,
                                cumulative_weighted_distributions,
                                theoretical_balance)]
           /\ frame' = [frame EXCEPT
                  !.theoretical_balances =
                      Append(@, [date |-> benchmark_return.date,
                                 balance |-> theoretical_balance]),
                  !.weighted_distributions =
                      Append(@, [date |-> benchmark_return.date,
                                 value |-> weighted_distribution]),
                  !.distribution_weight = weight,
                  !.cumulative_contributions = cumulative_contributions,
                  !.cumulative_weighted_distributions = cumulative_weighted_distributions,
                  !.prev_theoretical_balance = theoretical_balance,
                  !.prev_benchmark_balance = benchmark_return.balance,
                  !.i = n]
           /\ UNCHANGED <<pc, exception>>
    /\ UNCHANGED <<benchmark_values, investment_returns, investment_transactions,
                   index_values, calls_left, cashflows, xirr, solver_stage,
                   arguments, returned>>

\* calculate_mPME, lines 211-223 with calculate_xirr set
MPME_Xirr ==
    /\ pc = "mPME"
    /\ frame.i = Len(benchmark_returns)
    /\ frame.calculate_xirr
    /\ LET contributions_aggregated_by_date ==
               [k \in 1..Len(frame.contributions_aggregated_by_date) |->
                   [date |-> strftime(frame.contributions_aggregated_by_date[k].date),
                    value |-> frame.contributions_aggregated_by_date[k].value]]
           xirrs == call_read_xirrs_timeseries(
                        <<NoItem, Item(frame.theoretical_balances),
                          contributions_aggregated_by_date \o frame.weighted_distributions>>)
       IN  IF xirrs.raised # "none"
           THEN EndCall(xirrs.raised) /\ UNCHANGED benchmark_returns
           ELSE /\ benchmark_returns' = with_xirrs(benchmark_returns, xirrs.value)
                /\ EndCall("none")
    /\ UNCHANGED <<benchmark_values, investment_returns, investment_transactions,
                   index_values, calls_left, cashflows, xirr, solver_stage,
                   arguments, returned>>

\* calculate_mPME, line 223 reached with calculate_xirr unset
MPME_Return ==
    /\ pc = "mPME"
    /\ frame.i = Len(benchmark_returns)
    /\ ~frame.calculate_xirr
    /\ EndCall("none")
    /\ UNCHANGED <<benchmark_values, investment_returns, investment_transactions,
                   index_values, benchmark_returns, calls_left, cashflows, xirr,
                   solver_stage,
                   arguments, returned>>

-----------------------------------------------------------------------------
(* Inputs *)

\* all sequences over S of length at most n
SeqUpTo(S, n) == UNION {[1..k -> S] : k \in 0..n}

\* datetimes of benchmark values: a day between two requested dates, a
\* requested day at midnight and the same day at noon
BenchmarkDates == {200, 364, 365}

BenchmarkLevels == {R(0), R(100), R(110)}

BenchmarkValues == [date : BenchmarkDates, value : BenchmarkLevels]

PlainReturns == [date : DateStrings, balance : {R(1000)}]

PlainTransactions ==
    [date : DateStrings, value : {R(-1000)}, transactionTypeId : {Contribution}]

InitBuilder ==
    /\ benchmark_values \in SeqUpTo(BenchmarkValues, MaxBench)
    /\ investment_returns \in SeqUpTo(PlainReturns, MaxReturns)
    /\ investment_transactions \in SeqUpTo(PlainTransactions, MaxTxns)
    /\ index_values = <<>>
    /\ benchmark_returns = <<>>
    /\ pc = "start"
    /\ frame = NoFrame
    /\ exception = "none"
    /\ calls_left = 0
    /\ cashflows = <<>>
    /\ xirr = None
    /\ solver_stage = FALSE
    /\ arguments = NoCall
    /\ returned = NoItem

NextBuilder == GetBenchmarkReturns

\* the benchmarks of the PME runs: none, or readings of 100, 110 and 121 on
\* the three requested days, the middle one possibly zero
PmeBenchmarks ==
    {<<>>} \cup
    {<<[date |-> 0, value |-> R(100)], [date |-> 364, value |-> b],
       [date |-> 732, value |-> R(121)]>> : b \in {R(110), R(0)}}

ReturnBalances == {R(600), R(1000)}

Returns == [date : DateStrings, balance : ReturnBalances]

TransactionValues == {R(-1000), R(600)}

Transactions ==
    [date : DateStrings, value : TransactionValues,
     transactionTypeId : {Contribution, Distribution}]

\* the algorithms read the transactions only through
\* aggregate_transactions_by_date, which groups and sorts them, so the PME
\* runs list them latest first, same-day ones contributions last
ListedLatestFirst(txns) ==
    \A i \in 1..(Len(txns) - 1) :
        \/ strptime(txns[i].date) > strptime(txns[i + 1].date)
        \/ /\ txns[i].date = txns[i + 1].date
           /\ txns[i].transactionTypeId >= txns[i + 1].transactionTypeId

PmeInputs ==
    /\ benchmark_values \in PmeBenchmarks
    /\ investment_returns \in SeqUpTo(Returns, MaxReturns)
    /\ investment_transactions \in SeqUpTo(Transactions, MaxTxns)
    /\ ListedLatestFirst(investment_transactions)
    /\ index_values = <<>>
    /\ benchmark_returns = <<>>
    /\ pc = "start"
    /\ frame = NoFrame
    /\ exception = "none"
    /\ cashflows = <<>>
    /\ xirr = None
    /\ solver_stage = FALSE
    /\ arguments = NoCall
    /\ returned = NoItem

Init == PmeInputs /\ calls_left = 1

CallPme ==
    \/ \E want_xirr, calculate_tvpi \in BOOLEAN : CallLongNickels(want_xirr, calculate_tvpi)
    \/ \E want_xirr, calculate_tvpi \in BOOLEAN : CallMPME(want_xirr, calculate_tvpi)
    \/ \E calculate_tvpi \in BOOLEAN : CallKaplanSchoar(calculate_tvpi)

LongNickels == LongNickels_Iteration \/ LongNickels_Xirr \/ LongNickels_Return

MPME == MPME_Iteration \/ MPME_Xirr \/ MPME_Return

KaplanSchoar == KaplanSchoar_Iteration \/ KaplanSchoar_Return

Next == GetBenchmarkReturns \/ CallPme \/ LongNickels \/ MPME \/ KaplanSchoar

Spec == Init /\ [][Next]_vars

\* runs of several calls on one series: one return, and a distribution
\* listed before a contribution
SequenceTransactions ==
    {txns \in [1..2 -> Transactions] :
        /\ ListedLatestFirst(txns)
        /\ txns[1].transactionTypeId = Distribution
        /\ txns[2].transactionTypeId = Contribution}

InitSequence ==
    /\ benchmark_values \in PmeBenchmarks
    /\ investment_returns \in [1..1 -> Returns]
    /\ investment_transactions \in SequenceTransactions
    /\ index_values = <<>>
    /\ benchmark_returns = <<>>
    /\ pc = "start"
    /\ frame = NoFrame
    /\ exception = "none"
    /\ cashflows = <<>>
    /\ xirr = None
    /\ solver_stage = FALSE
    /\ arguments = NoCall
    /\ returned = NoItem
    /\ calls_left = MaxCalls

SpecSequence == InitSequence /\ [][Next]_vars

FlowValues == {None, R(-1), R(0), R(1)}

InitXirr ==
    /\ cashflows \in SeqUpTo([date : DateStrings, value : FlowValues], MaxFlows)
    /\ pc = "calculate_xirr"
    /\ xirr = None
    /\ solver_stage = FALSE
    /\ arguments = NoCall
    /\ returned = NoItem
    /\ benchmark_values = <<>>
    /\ investment_returns = <<>>
    /\ investment_transactions = <<>>
    /\ index_values = <<>>
    /\ benchmark_returns = <<>>
    /\ frame = NoFrame
    /\ exception = "none"
    /\ calls_left = 0

NextXirr == CalculateXirr

SpecXirr == InitXirr /\ [][NextXirr]_vars

SpecBuilder == InitBuilder /\ [][NextBuilder]_vars

-----------------------------------------------------------------------------
(* Properties of __get_benchmark_returns, checked under SpecBuilder *)

RequestedDates ==
    {investment_returns[i].date : i \in 1..Len(investment_returns)}
        \cup {investment_transactions[i].date : i \in 1..Len(investment_transactions)}

\* C7: the series returned by __get_benchmark_returns has no two entries
\* with the same date, is sorted ascending by date, and its dates are exactly
\* the dates of the investment returns and of the transactions.
C7_UniqueSortedUnionOfDates ==
    pc = "ready" =>
        /\ \A i, j \in 1..Len(benchmark_returns) :
               i < j => strptime(benchmark_returns[i].date)
                            < strptime(benchmark_returns[j].date)
        /\ {benchmark_returns[i].date : i \in 1..Len(benchmark_returns)}
               = RequestedDates

\* a series of two entries built from unsorted transactions, one of whose
\* dates is also the date of a return
C7_Witness ==
    /\ pc = "ready"
    /\ Len(benchmark_returns) = 2
    /\ Len(investment_transactions) = 2
    /\ strptime(investment_transactions[1].date)
           > strptime(investment_transactions[2].date)
    /\ \E i \in 1..Len(investment_returns) :
           investment_returns[i].date = investment_transactions[1].date

\* the benchmark values dated (to the day) at or before / after datetime d
AtOrBefore(d) ==
    {i \in 1..Len(benchmark_values) : date_only(benchmark_values[i].date) <= d}

After(d) ==
    {i \in 1..Len(benchmark_values) : date_only(benchmark_values[i].date) > d}

LatestOf(I) ==
    {i \in I : \A j \in I : date_only(benchmark_values[j].date)
                                <= date_only(benchmark_values[i].date)}

EarliestOf(I) ==
    {i \in I : \A j \in I : date_only(benchmark_values[i].date)
                                <= date_only(benchmark_values[j].date)}

\* C8: every entry's balance is the value of the latest benchmark value
\* dated at or before the entry's date and, only when there is none, of the
\* earliest one dated after it; a non-empty benchmark list never makes the
\* builder fail, an empty one raises the invalid-state error before anything
\* else is done.
C8_BalanceIsLatestAtOrBefore ==
    /\ pc = "ready" =>
           \A n \in 1..Len(benchmark_returns) :
               LET d == strptime(benchmark_returns[n].date)
               IN  IF AtOrBefore(d) # {}
                   THEN \E i \in LatestOf(AtOrBefore(d)) :
                            benchmark_returns[n].balance = benchmark_values[i].value
                   ELSE \E i \in EarliestOf(After(d)) :
                            benchmark_returns[n].balance = benchmark_values[i].value
    /\ pc = "raised" =>
           /\ exception = "InvalidState"
           /\ benchmark_values = <<>>
           /\ index_values = <<>> /\ benchmark_returns = <<>> /\ frame = NoFrame
    /\ benchmark_values = <<>> => pc \in {"start", "raised"}

\* a series in which one entry precedes all benchmark data and borrows the
\* earliest later value, while another takes a value dated on its own day
\* that carried a time of day in the input
C8_Witness ==
    /\ pc = "ready"
    /\ \E n \in 1..Len(benchmark_returns) :
           AtOrBefore(strptime(benchmark_returns[n].date)) = {}
    /\ \E n \in 1..Len(benchmark_returns) :
           \E i \in AtOrBefore(strptime(benchmark_returns[n].date)) :
               /\ benchmark_values[i].date = strptime(benchmark_returns[n].date)
               /\ benchmark_returns[n].balance = benchmark_values[i].value
               /\ benchmark_returns[n].balance # benchmark_returns[1].balance

\* x / y, None where the quotient is not defined
Quotient(x, y) == IF y[1] = 0 THEN None ELSE RDiv(x, y)

BuilderFieldsNull(n) ==
    /\ benchmark_returns[n].kaplanSchoarMultiple = None
    /\ benchmark_returns[n].xirr = None
    /\ benchmark_returns[n].dpi = None
    /\ benchmark_returns[n].rvpi = None
    /\ benchmark_returns[n].tvpi = None

CumulativeFollows(n) ==
    benchmark_returns[n].cumulativeTimeWeightedReturn
        = RMul(IF n = 1 THEN One
               ELSE benchmark_returns[n - 1].cumulativeTimeWeightedReturn,
               RAdd(One, benchmark_returns[n].timeWeightedReturn))

\* C9 as stated: the first entry has timeWeightedReturn 0 and cumulative
\* return 1, every later entry has timeWeightedReturn
\* (balance - previous balance) / previous balance and the cumulative return
\* compounds it, and the five metric fields are null.
C9_AsStated ==
    pc = "ready" =>
        \A n \in 1..Len(benchmark_returns) :
            /\ n = 1 => /\ benchmark_returns[n].timeWeightedReturn = Zero
                        /\ benchmark_returns[n].cumulativeTimeWeightedReturn = One
            /\ n > 1 => benchmark_returns[n].timeWeightedReturn
                            = Quotient(RSub(benchmark_returns[n].balance,
                                            benchmark_returns[n - 1].balance),
                                       benchmark_returns[n - 1].balance)
            /\ CumulativeFollows(n)
            /\ BuilderFieldsNull(n)

\* C9 (amended): as C9, except that a later entry whose previous balance is 0
\* has timeWeightedReturn 0.
C9_ReturnsRecurrence ==
    pc = "ready" =>
        \A n \in 1..Len(benchmark_returns) :
            /\ n = 1 => /\ benchmark_returns[n].timeWeightedReturn = Zero
                        /\ benchmark_returns[n].cumulativeTimeWeightedReturn = One
            /\ n > 1 => benchmark_returns[n].timeWeightedReturn
                            = IF benchmark_returns[n - 1].balance = Zero THEN Zero
                              ELSE RDiv(RSub(benchmark_returns[n].balance,
                                             benchmark_returns[n - 1].balance),
                                        benchmark_returns[n - 1].balance)
            /\ CumulativeFollows(n)
            /\ BuilderFieldsNull(n)

\* a series whose second entry has a non-zero return on a non-zero balance
C9_Witness ==
    /\ pc = "ready"
    /\ Len(benchmark_returns) >= 2
    /\ benchmark_returns[1].balance # Zero
    /\ benchmark_returns[2].timeWeightedReturn = <<1, 10>>
    /\ benchmark_returns[2].cumulativeTimeWeightedReturn = <<11, 10>>

-----------------------------------------------------------------------------
(* Properties of the PME algorithms, checked under Spec and SpecSequence *)

\* the sum of the values of the transactions of one type dated date_string,
\* a null value counting as 0
RECURSIVE FlowFrom(_, _, _)
FlowFrom(k, date_string, type) ==
    IF k > Len(investment_transactions) THEN Zero
    ELSE RAdd(IF /\ investment_transactions[k].date = date_string
                 /\ investment_transactions[k].transactionTypeId = type
              THEN OrZero(investment_transactions[k].value) ELSE Zero,
              FlowFrom(k + 1, date_string, type))

FlowOn(n, type) == FlowFrom(1, benchmark_returns[n].date, type)

HasFlowOn(n, type) ==
    \E k \in 1..Len(investment_transactions) :
        /\ investment_transactions[k].date = benchmark_returns[n].date
        /\ investment_transactions[k].transactionTypeId = type

Growth(n) == RAdd(One, benchmark_returns[n].timeWeightedReturn)

\* the end-to-end scenario: benchmark 100 / 110 / 121 on the three dates, a
\* contribution of -1000 on the first and a distribution of +600 on the last
Scenario ==
    /\ Len(benchmark_returns) = 3
    /\ benchmark_returns[1].balance = R(100)
    /\ benchmark_returns[2].balance = R(110)
    /\ benchmark_returns[3].balance = R(121)
    /\ investment_transactions =
           <<[date |-> "2021-01-01", value |-> R(600), transactionTypeId |-> Distribution],
             [date |-> "2020-01-01", value |-> R(-1000), transactionTypeId |-> Contribution]>>

\* C1: Long-Nickels keeps a theoretical balance that is 0 before the first
\* entry and at every entry is the previous balance times
\* (1 + timeWeightedReturn) plus that date's contributions plus that date's
\* distributions; in the end-to-end scenario the balances have magnitudes
\* 1000, 1100, and 1210 before / 610 after the distribution.
C1_LongNickelsBalance ==
    pc = "long_nickels" =>
        LET series == frame.theoretical_investment_series
            before(n) == RAdd(RMul(IF n = 1 THEN Zero ELSE series[n - 1].balance,
                                   Growth(n)),
                              FlowOn(n, Contribution))
        IN  /\ Len(series) = frame.i
            /\ \A n \in 1..frame.i :
                   /\ series[n].date = benchmark_returns[n].date
                   /\ series[n].balance = RAdd(before(n), FlowOn(n, Distribution))
            /\ Scenario =>
                   /\ frame.i >= 1 => RAbs(series[1].balance) = R(1000)
                   /\ frame.i >= 2 => RAbs(series[2].balance) = R(1100)
                   /\ frame.i >= 3 => /\ RAbs(before(3)) = R(1210)
                                      /\ RAbs(series[3].balance) = R(610)

\* the scenario run to its last entry
C1_Witness ==
    /\ pc = "long_nickels"
    /\ Scenario
    /\ frame.i = 3
    /\ frame.theoretical_investment_series[2].balance = R(-1100)
    /\ frame.theoretical_investment_series[3].balance = R(-610)

\* the running total of one type after entry n
RECURSIVE Discounted(_, _)
Discounted(n, type) ==
    IF n = 0 THEN Zero
    ELSE RAdd(RMul(Discounted(n - 1, type), Growth(n)), FlowOn(n, type))

\* C2: Kaplan-Schoar keeps the discounted distributions and the discounted
\* contributions, each multiplied by (1 + timeWeightedReturn) at every entry
\* and then increased by that date's distributions / contributions; every
\* entry's multiple is discounted distributions / (- discounted
\* contributions), and 0 where the discounted contributions are 0.
C2_KaplanSchoarMultiple ==
    pc = "kaplan_schoar" =>
        /\ frame.i >= 1 =>
               /\ frame.prev_discounted_distribution_value
                      = Discounted(frame.i, Distribution)
               /\ frame.prev_discounted_contribution_value
                      = Discounted(frame.i, Contribution)
        /\ \A n \in 1..frame.i :
               benchmark_returns[n].kaplanSchoarMultiple
                   = IF Discounted(n, Contribution) = Zero THEN Zero
                     ELSE RDiv(Discounted(n, Distribution),
                               RNeg(Discounted(n, Contribution)))
        /\ (\A k \in 1..Len(investment_transactions) :
                investment_transactions[k].transactionTypeId # Contribution)
               => \A n \in 1..frame.i : benchmark_returns[n].kaplanSchoarMultiple = Zero

\* the scenario run to its last entry: 600 / 1210
C2_Witness ==
    /\ pc = "kaplan_schoar"
    /\ Scenario
    /\ frame.i = 3
    /\ benchmark_returns[3].kaplanSchoarMultiple = <<60, 121>>
    /\ benchmark_returns[2].kaplanSchoarMultiple = Zero

\* the returns dated at or before entry n, and the one the search selects:
\* the last listed of the latest dated
ReturnsAtOrBefore(n) ==
    {k \in 1..Len(investment_returns) :
        strptime(investment_returns[k].date) <= strptime(benchmark_returns[n].date)}

MostRecentReturn(n) ==
    CHOOSE k \in ReturnsAtOrBefore(n) :
        \A j \in ReturnsAtOrBefore(n) :
            \/ strptime(investment_returns[j].date) < strptime(investment_returns[k].date)
            \/ /\ investment_returns[j].date = investment_returns[k].date
               /\ j <= k

\* C3 as stated: the distribution weight of an entry with a same-date
\* distribution d and a most recent return of balance b is |d| / (|d| + b),
\* whatever the sign of d, and 0 without a distribution or without a return.
C3_AsStated ==
    (pc = "mPME" /\ frame.i >= 1) =>
        LET n == frame.i
            d == FlowOn(n, Distribution)
        IN  frame.distribution_weight
                = IF HasFlowOn(n, Distribution) /\ ReturnsAtOrBefore(n) # {}
                  THEN Quotient(RAbs(d),
                                RAdd(RAbs(d), investment_returns[MostRecentReturn(n)].balance))
                  ELSE Zero

\* C4 as stated: no run of the three algorithms divides by zero.
C4_AsStated == exception # "ZeroDivisionError"

PmeRunning == pc \in {"ready", "long_nickels", "mPME", "kaplan_schoar"}

\* C5: a step of a PME call keeps the series' length and order and every
\* entry's date, balance, timeWeightedReturn and cumulativeTimeWeightedReturn;
\* it changes kaplanSchoarMultiple only in the Kaplan-Schoar algorithm, xirr
\* only in Long-Nickels or mPME with calculate_xirr set, and dpi, rvpi, tvpi
\* only with calculate_tvpi set.
C5_Frame ==
    [][PmeRunning =>
        /\ Len(benchmark_returns') = Len(benchmark_returns)
        /\ \A n \in 1..Len(benchmark_returns) :
               /\ benchmark_returns'[n].date = benchmark_returns[n].date
               /\ benchmark_returns'[n].balance = benchmark_returns[n].balance
               /\ benchmark_returns'[n].timeWeightedReturn
                      = benchmark_returns[n].timeWeightedReturn
               /\ benchmark_returns'[n].cumulativeTimeWeightedReturn
                      = benchmark_returns[n].cumulativeTimeWeightedReturn
               /\ benchmark_returns'[n].kaplanSchoarMultiple
                      # benchmark_returns[n].kaplanSchoarMultiple
                      => pc = "kaplan_schoar"
               /\ benchmark_returns'[n].xirr # benchmark_returns[n].xirr
                      => pc \in {"long_nickels", "mPME"} /\ frame.calculate_xirr
               /\ (\/ benchmark_returns'[n].dpi # benchmark_returns[n].dpi
                   \/ benchmark_returns'[n].rvpi # benchmark_returns[n].rvpi
                   \/ benchmark_returns'[n].tvpi # benchmark_returns[n].tvpi)
                      => pc # "ready" /\ frame.calculate_tvpi
    ]_vars

\* two calls made: the multiple of an entry written by Kaplan-Schoar called
\* without calculate_tvpi, its dpi by another algorithm, its xirr untouched
C5_Witness ==
    /\ pc = "ready"
    /\ calls_left = 0
    /\ \E n \in 1..Len(benchmark_returns) :
           /\ benchmark_returns[n].kaplanSchoarMultiple # None
           /\ benchmark_returns[n].dpi # None
           /\ benchmark_returns[n].dpi # Zero
           /\ benchmark_returns[n].xirr = None

\* the trailing XIRR of entry n: of the sign-inverted aggregated transactions
\* dated at or before it, then the theoretical balance as the final valuation
TrailingXirr(series, transactions, n) ==
    LET flows == flipped_aggregate(transactions)
        upto == SelectSeq(flows,
                          LAMBDA x : strptime(x.date) <= strptime(series[n].date))
    IN  calculate_xirr(Append(upto, [date |-> series[n].date,
                                     value |-> series[n].balance])).value

\* C6 as stated: a call of Long-Nickels or mPME with calculate_xirr set
\* completes, and every entry's xirr is then the trailing XIRR of the
\* theoretical balance at that entry.
C6_AsStated ==
    [][(/\ pc \in {"long_nickels", "mPME"}
        /\ frame.i = Len(benchmark_returns)
        /\ frame.calculate_xirr)
       => /\ exception' = "none"
          /\ \A n \in 1..Len(benchmark_returns) :
                 benchmark_returns'[n].xirr
                     = IF pc = "long_nickels"
                       THEN TrailingXirr(frame.theoretical_investment_series,
                                         investment_transactions, n)
                       ELSE TrailingXirr(frame.theoretical_balances,
                                         [k \in 1..Len(frame.contributions_aggregated_by_date) |->
                                             [date |-> strftime(frame.contributions_aggregated_by_date[k].date),
                                              value |-> frame.contributions_aggregated_by_date[k].value]]
                                             \o frame.weighted_distributions, n)
    ]_vars

-----------------------------------------------------------------------------
(* Properties of calculate_xirr, checked under SpecXirr *)

AllAtLeastZero ==
    \A i \in 1..Len(cashflows) : IsNumber(cashflows[i].value) /\ cashflows[i].value[1] >= 0

AllAtMostZero ==
    \A i \in 1..Len(cashflows) : IsNumber(cashflows[i].value) /\ cashflows[i].value[1] <= 0

\* C10 as stated: without raising and without reaching the root-finder, the
\* result is None if every value is >= 0 and -1 if every value is <= 0.
C10_AsStated ==
    pc = "returned" =>
        /\ AllAtLeastZero => xirr = None /\ ~solver_stage /\ exception = "none"
        /\ AllAtMostZero => xirr = R(-1) /\ ~solver_stage /\ exception = "none"

\* C10 (amended): without raising and without reaching the root-finder, the
\* result is None if every value is >= 0, and -1 if every value is <= 0 and
\* some value is < 0.
C10_DegeneratePolicy ==
    pc = "returned" =>
        /\ AllAtLeastZero => xirr = None /\ ~solver_stage /\ exception = "none"
        /\ (AllAtMostZero /\ ~AllAtLeastZero)
               => xirr = R(-1) /\ ~solver_stage /\ exception = "none"

\* a list of a zero and negative flows has returned -1
C10_Witness ==
    /\ pc = "returned"
    /\ Len(cashflows) = 3
    /\ AllAtMostZero
    /\ \E i \in 1..3 : cashflows[i].value = Zero
    /\ xirr = R(-1)

-----------------------------------------------------------------------------
(* TransactionUtils.aggregate_transactions_by_date called on its own *)

\* the call of aggregate_transactions_by_date(transactions, transaction_type_id)
AggregateTransactionsByDate ==
    /\ pc = "aggregate"
    /\ returned' = aggregate_transactions_by_date(arguments.transactions,
                                                  arguments.transaction_type_id)
    /\ exception' = returned'.raised
    /\ pc' = "returned"
    /\ UNCHANGED <<benchmark_values, investment_returns, investment_transactions,
                   index_values, benchmark_returns, frame, calls_left,
                   cashflows, xirr, solver_stage, arguments>>

\* type identifiers a record may carry, and the filters a caller may pass
TypeIds == {0, Contribution, Distribution}

TypeFilters == {NoTypeId} \cup TypeIds

AggregatedValues == {None, R(-1000), R(600)}

\* transaction records with and without the type field, in any order
AnyTransactions ==
    [date : DateStrings, value : AggregatedValues, transactionTypeId : TypeIds]
        \cup [date : DateStrings, value : AggregatedValues]

InitAggregate ==
    /\ arguments \in [fn : {"aggregate_transactions_by_date"},
                      transactions : SeqUpTo(AnyTransactions, MaxTxns),
                      transaction_type_id : TypeFilters]
    /\ returned = NoItem
    /\ pc = "aggregate"
    /\ exception = "none"
    /\ benchmark_values = <<>>
    /\ investment_returns = <<>>
    /\ investment_transactions = <<>>
    /\ index_values = <<>>
    /\ benchmark_returns = <<>>
    /\ frame = NoFrame
    /\ calls_left = 0
    /\ cashflows = <<>>
    /\ xirr = None
    /\ solver_stage = FALSE

NextAggregate == AggregateTransactionsByDate

SpecAggregate == InitAggregate /\ [][NextAggregate]_vars

-----------------------------------------------------------------------------
(* Properties of aggregate_transactions_by_date, checked under SpecAggregate *)

AggregateReturned ==
    /\ pc = "returned"
    /\ arguments.fn = "aggregate_transactions_by_date"
    /\ returned.raised = "none"

\* C11: whatever the transaction list and the type filter, the list
\* aggregate_transactions_by_date returns is in strictly ascending order of
\* its parsed dates, so no calendar date has more than one record.
C11_OnePerDateAscending ==
    AggregateReturned =>
        \A i, j \in 1..Len(returned.value) :
            i < j => strptime(returned.value[i].date) < strptime(returned.value[j].date)

\* two transactions listed latest first come back as two records
C11_Witness ==
    /\ AggregateReturned
    /\ Len(arguments.transactions) = 2
    /\ strptime(arguments.transactions[1].date) > strptime(arguments.transactions[2].date)
    /\ Len(returned.value) = 2

\* the transaction passes the filter: no filter, or its type equals it
MatchesFilter(txn, type_filter) ==
    \/ type_filter = NoTypeId
    \/ /\ "transactionTypeId" \in DOMAIN txn
       /\ txn.transactionTypeId = type_filter

\* sum of the values of the input transactions that pass the filter,
\* a null value counted as 0
FilteredInputTotal ==
    LET matching == SelectSeq(arguments.transactions,
                       LAMBDA txn : MatchesFilter(txn, arguments.transaction_type_id))
    IN  sum([n \in 1..Len(matching) |->
                IF matching[n].value = None THEN Zero ELSE matching[n].value])

ReturnedTotal ==
    sum([n \in 1..Len(returned.value) |-> returned.value[n].value])

\* C12: for every transaction list and every type filter, none included, the
\* values aggregate_transactions_by_date returns sum to the total of the
\* input transactions whose type equals the filter (all of them without a
\* filter), a null value counting as 0.
C12_AsStated == AggregateReturned => ReturnedTotal = FilteredInputTotal

CalledWithFilterOnUntypedRecord ==
    /\ pc = "returned"
    /\ arguments.fn = "aggregate_transactions_by_date"
    /\ arguments.transaction_type_id # NoTypeId
    /\ \E i \in 1..Len(arguments.transactions) :
           "transactionTypeId" \notin DOMAIN arguments.transactions[i]

\* C13: a call of aggregate_transactions_by_date with a type filter on a list
\* in which some record lacks the type field fails with the invalid-state
\* error and no other, wherever the record stands and whatever the filter.
C13_AsStated == CalledWithFilterOnUntypedRecord => returned.raised = "InvalidState"

-----------------------------------------------------------------------------
(* BisectHelpers: the searches of a sorted list called on their own *)

HelperUnchanged ==
    UNCHANGED <<benchmark_values, investment_returns, investment_transactions,
                index_values, benchmark_returns, frame, exception, calls_left,
                cashflows, xirr, solver_stage, arguments>>

Index ==
    /\ pc = "search" /\ arguments.fn = "index"
    /\ returned' = index(arguments.a, arguments.x)
    /\ pc' = "returned"
    /\ HelperUnchanged

FindLt ==
    /\ pc = "search" /\ arguments.fn = "find_lt"
    /\ returned' = find_lt(arguments.a, arguments.x)
    /\ pc' = "returned"
    /\ HelperUnchanged

FindLe ==
    /\ pc = "search" /\ arguments.fn = "find_le"
    /\ returned' = find_le(arguments.a, arguments.x)
    /\ pc' = "returned"
    /\ HelperUnchanged

FindGt ==
    /\ pc = "search" /\ arguments.fn = "find_gt"
    /\ returned' = find_gt(arguments.a, arguments.x)
    /\ pc' = "returned"
    /\ HelperUnchanged

FindGe ==
    /\ pc = "search" /\ arguments.fn = "find_ge"
    /\ returned' = find_ge(arguments.a, arguments.x)
    /\ pc' = "returned"
    /\ HelperUnchanged

\* elements of the lists searched, 0 among them, and the values searched
\* for, below, among and above them
Elements == {0, 2, 4}

Queries == {0 - 1, 0, 1, 2, 4, 5}

Ascending(keys) == \A i \in 1..(Len(keys) - 1) : keys[i] <= keys[i + 1]

SortedLists == {a \in SeqUpTo(Elements, MaxLen) : Ascending(a)}

HelperIdle ==
    /\ returned = NoItem
    /\ pc = "search"
    /\ exception = "none"
    /\ benchmark_values = <<>>
    /\ investment_returns = <<>>
    /\ investment_transactions = <<>>
    /\ index_values = <<>>
    /\ benchmark_returns = <<>>
    /\ frame = NoFrame
    /\ calls_left = 0
    /\ cashflows = <<>>
    /\ xirr = None
    /\ solver_stage = FALSE

InitSearch ==
    /\ arguments \in [fn : {"index", "find_lt", "find_le", "find_gt", "find_ge"},
                      a : SortedLists, x : Queries]
    /\ HelperIdle

NextSearch == Index \/ FindLt \/ FindLe \/ FindGt \/ FindGe

SpecSearch == InitSearch /\ [][NextSearch]_vars

-----------------------------------------------------------------------------
(* Properties of the unkeyed searches, checked under SpecSearch *)

Searched(fn) == pc = "returned" /\ arguments.fn = fn

\* the first and the last position (counted from 1) of a qualifying key
Leftmost(keys, Qualifies(_)) ==
    CHOOSE p \in 1..Len(keys) :
        Qualifies(keys[p]) /\ \A q \in 1..(p - 1) : ~Qualifies(keys[q])

Rightmost(keys, Qualifies(_)) ==
    CHOOSE p \in 1..Len(keys) :
        Qualifies(keys[p]) /\ \A q \in (p + 1)..Len(keys) : ~Qualifies(keys[q])

Some(keys, Qualifies(_)) == \E p \in 1..Len(keys) : Qualifies(keys[p])

\* C14: on an ascending list a and a query x, index gives the leftmost
\* position holding x exactly when x occurs, find_lt / find_le the rightmost
\* element < x / <= x, find_gt / find_ge the leftmost element > x / >= x,
\* and each gives None exactly when no element qualifies.
C14_UnkeyedSearches ==
    LET a == arguments.a
        x == arguments.x
        eq(k) == k = x
        lt(k) == k < x
        le(k) == k <= x
        gt(k) == k > x
        ge(k) == k >= x
    IN  /\ Searched("index") =>
            returned = IF Some(a, eq) THEN Item(Leftmost(a, eq) - 1) ELSE NoItem
        /\ Searched("find_lt") =>
            /\ returned = IF Some(a, lt) THEN Item(a[Rightmost(a, lt)]) ELSE NoItem
            /\ returned # NoItem => returned[1] < x
        /\ Searched("find_le") =>
            returned = IF Some(a, le) THEN Item(a[Rightmost(a, le)]) ELSE NoItem
        /\ Searched("find_gt") =>
            /\ returned = IF Some(a, gt) THEN Item(a[Leftmost(a, gt)]) ELSE NoItem
            /\ returned # NoItem => x < returned[1]
        /\ Searched("find_ge") =>
            returned = IF Some(a, ge) THEN Item(a[Leftmost(a, ge)]) ELSE NoItem

\* find_lt on a list that holds the query twice and a smaller element
C14_Witness ==
    /\ Searched("find_lt")
    /\ Len(arguments.a) = 3
    /\ arguments.a[1] < arguments.x
    /\ arguments.a[2] = arguments.x
    /\ arguments.a[3] = arguments.x
    /\ returned = Item(arguments.a[1])

-----------------------------------------------------------------------------
(* BisectHelpers: the keyed searches called on their own *)

IndexByKey ==
    /\ pc = "search" /\ arguments.fn = "index_by_key"
    /\ returned' = index_by_key(arguments.a, arguments.x, arguments.key)
    /\ pc' = "returned"
    /\ HelperUnchanged

FindEqByKey ==
    /\ pc = "search" /\ arguments.fn = "find_eq_by_key"
    /\ returned' = find_eq_by_key(arguments.a, arguments.x, arguments.key)
    /\ pc' = "returned"
    /\ HelperUnchanged

FindLtByKey ==
    /\ pc = "search" /\ arguments.fn = "find_lt_by_key"
    /\ returned' = find_lt_by_key(arguments.a, arguments.x, arguments.key)
    /\ pc' = "returned"
    /\ HelperUnchanged

FindLeByKey ==
    /\ pc = "search" /\ arguments.fn = "find_le_by_key"
    /\ returned' = find_le_by_key(arguments.a, arguments.x, arguments.key)
    /\ pc' = "returned"
    /\ HelperUnchanged

FindGtByKey ==
    /\ pc = "search" /\ arguments.fn = "find_gt_by_key"
    /\ returned' = find_gt_by_key(arguments.a, arguments.x, arguments.key)
    /\ pc' = "returned"
    /\ HelperUnchanged

FindGeByKey ==
    /\ pc = "search" /\ arguments.fn = "find_ge_by_key"
    /\ returned' = find_ge_by_key(arguments.a, arguments.x, arguments.key)
    /\ pc' = "returned"
    /\ HelperUnchanged

\* dicts with a key to search on and a payload that tells equal keys apart
Records == [date : Elements, value : {R(600), R(1000)}]

SortedRecordLists ==
    {a \in SeqUpTo(Records, MaxLen) : Ascending(specific_value_list(a, "date"))}

InitSearchByKey ==
    /\ arguments \in [fn : {"index_by_key", "find_eq_by_key", "find_lt_by_key",
                            "find_le_by_key", "find_gt_by_key", "find_ge_by_key"},
                      a : SortedRecordLists, x : Queries, key : {"date"}]
    /\ HelperIdle

NextSearchByKey ==
    IndexByKey \/ FindEqByKey \/ FindLtByKey \/ FindLeByKey \/ FindGtByKey \/ FindGeByKey

SpecSearchByKey == InitSearchByKey /\ [][NextSearchByKey]_vars

-----------------------------------------------------------------------------
(* Properties of the keyed searches, checked under SpecSearchByKey *)

\* the keys of the list searched
ExtractedKeys == [i \in 1..Len(arguments.a) |-> arguments.a[i][arguments.key]]

\* the record returned, reduced to its key (None stays None)
KeyOfReturned ==
    IF returned = NoItem THEN NoItem ELSE Item(returned[1][arguments.key])

\* C15: on a list of records ascending by key, find_eq_by_key returns the
\* leftmost record with key = x, find_lt_by_key / find_le_by_key the
\* rightmost with key < x / <= x, find_gt_by_key / find_ge_by_key the
\* leftmost with key > x / >= x, None when there is none; the key of the
\* record is what the unkeyed search returns on the extracted keys.
C15_KeyedSearches ==
    LET a == arguments.a
        x == arguments.x
        keys == ExtractedKeys
        eq(k) == k = x
        lt(k) == k < x
        le(k) == k <= x
        gt(k) == k > x
        ge(k) == k >= x
    IN  /\ Searched("find_eq_by_key") =>
            /\ returned = IF Some(keys, eq) THEN Item(a[Leftmost(keys, eq)]) ELSE NoItem
            /\ (returned # NoItem) <=> (index(keys, x) # NoItem)
            /\ returned # NoItem => returned[1] = a[index(keys, x)[1] + 1]
        /\ Searched("find_lt_by_key") =>
            /\ returned = IF Some(keys, lt) THEN Item(a[Rightmost(keys, lt)]) ELSE NoItem
            /\ KeyOfReturned = find_lt(keys, x)
        /\ Searched("find_le_by_key") =>
            /\ returned = IF Some(keys, le) THEN Item(a[Rightmost(keys, le)]) ELSE NoItem
            /\ KeyOfReturned = find_le(keys, x)
        /\ Searched("find_gt_by_key") =>
            /\ returned = IF Some(keys, gt) THEN Item(a[Leftmost(keys, gt)]) ELSE NoItem
            /\ KeyOfReturned = find_gt(keys, x)
        /\ Searched("find_ge_by_key") =>
            /\ returned = IF Some(keys, ge) THEN Item(a[Leftmost(keys, ge)]) ELSE NoItem
            /\ KeyOfReturned = find_ge(keys, x)

\* find_ge_by_key on a list holding two different records with the key
\* searched for, after a record with a smaller key: the first of the two
C15_Witness ==
    /\ Searched("find_ge_by_key")
    /\ Len(arguments.a) = 3
    /\ arguments.a[1].date < arguments.x
    /\ arguments.a[2].date = arguments.x
    /\ arguments.a[3].date = arguments.x
    /\ arguments.a[2] # arguments.a[3]
    /\ returned = Item(arguments.a[2])

\* C16: on a list of records ascending by key, index_by_key(a, x, key)
\* returns the leftmost position i with a[i][key] = x when some record has
\* key x, and None otherwise.
C16_AsStated ==
    LET keys == ExtractedKeys
        eq(k) == k = arguments.x
    IN  Searched("index_by_key") =>
            returned = IF Some(keys, eq) THEN Item(Leftmost(keys, eq) - 1) ELSE NoItem

-----------------------------------------------------------------------------
(* Long-Nickels and Kaplan-Schoar run one after the other on one series *)

CallLongNickelsOrKaplanSchoar ==
    \/ \E want_xirr, calculate_tvpi \in BOOLEAN : CallLongNickels(want_xirr, calculate_tvpi)
    \/ \E calculate_tvpi \in BOOLEAN : CallKaplanSchoar(calculate_tvpi)

NextPair ==
    GetBenchmarkReturns \/ CallLongNickelsOrKaplanSchoar \/ LongNickels \/ KaplanSchoar

SpecPair == InitSequence /\ [][NextPair]_vars

\* at every entry Long-Nickels has passed its balance is the sum of the two
\* running totals, and the totals Kaplan-Schoar holds are those totals
BalanceIsSumOfDiscounted ==
    /\ pc = "long_nickels" =>
           \A n \in 1..frame.i :
               frame.theoretical_investment_series[n].balance
                   = RAdd(Discounted(n, Contribution), Discounted(n, Distribution))
    /\ (pc = "kaplan_schoar" /\ frame.i >= 1) =>
           /\ frame.prev_discounted_contribution_value = Discounted(frame.i, Contribution)
           /\ frame.prev_discounted_distribution_value = Discounted(frame.i, Distribution)

\* an rvpi written by one of the two algorithms is written again with the
\* same value by whichever of the two runs next with calculate_tvpi
RvpiRewrittenUnchanged ==
    \A n \in 1..Len(benchmark_returns) :
        (n <= Len(benchmark_returns') /\ benchmark_returns[n].rvpi # None)
            => benchmark_returns'[n].rvpi = benchmark_returns[n].rvpi

\* C17: on one benchmark-return series and one transaction list the
\* Long-Nickels balance of every entry is the sum of the Kaplan-Schoar
\* discounted contributions and discounted distributions of that entry, a
\* running value of 0 included, and the rvpi both algorithms write with
\* calculate_tvpi is the same on every entry.
C17_BalanceAndRvpiAgree == [](BalanceIsSumOfDiscounted) /\ [][RvpiRewrittenUnchanged]_vars

\* Kaplan-Schoar with calculate_tvpi, two entries into a series of three on
\* which Long-Nickels wrote the rvpi before: the second rvpi is not 0, the
\* third is still the one Long-Nickels wrote
C17_Witness ==
    /\ pc = "kaplan_schoar"
    /\ frame.calculate_tvpi
    /\ frame.i = 2
    /\ Len(benchmark_returns) = 3
    /\ benchmark_returns[2].rvpi # Zero
    /\ benchmark_returns[3].rvpi # None
    /\ benchmark_returns[3].kaplanSchoarMultiple = None

====
